---- MODULE Spec2Model ----
(***************************************************************************)
(* NiimbotBluetoothClient (src/src/client/bluetooth_impl.ts): the session  *)
(* fields, the command gate (async-mutex Mutex), the request/response      *)
(* correlation of sendPacketWaitResponse, sendRaw, connect and disconnect. *)
(*                                                                         *)
(* JavaScript runs one task at a time: an action of this model is one task *)
(* (a call from user code, a timer, a transport event or the completion of *)
(* a transport promise) together with all the promise continuations it     *)
(* triggers, up to the next suspension on a timer or on the transport.     *)
(***************************************************************************)
EXTENDS Integers, Sequences, FiniteSets, TLC

\* ---------------------------------------------------------------- bounds
\* number of send calls (sendPacketWaitResponse / sendRaw) the user makes in
\* one run; their ids 1..MaxCalls are given in arrival order
MaxCalls == 2
\* number of disconnect listeners connect() may leave registered on one device
MaxListeners == 2

\* ------------------------------------------------------------- constants
\* the gate is free (mutex unlocked, as constructed)
NoCall == 0
\* no device / no value in a field
Undefined == "undefined"
\* ConnectResult.FirmwareErrors, the default of the result code
FirmwareErrors == "FirmwareErrors"
\* the connect result a successful initialNegotiate stores in info
Negotiated == "Connected"
\* ResponseCommandId.Invalid, the command of the sentinel packet
Invalid == "Invalid"

\* the device requestDevice returns. One device is modelled: a link is up only
\* while connect() is between gatt.connect() and its end or while the session
\* holds it, so the links of two devices are never up together, and the
\* listeners of a device fire only on its own link
Devices == {"printer"}
UserCalls == 1..MaxCalls
\* the calls of the negotiation: the command of initialNegotiate, that of fetchPrinterInfo
InitialNegotiateCall == MaxCalls + 1
FetchPrinterInfoCall == MaxCalls + 2
Calls == 1..(MaxCalls + 2)
\* the command ids of inbound packets: "reply" is the id the negotiation
\* commands await, "other" any id outside the awaited set
Cmds == {"reply", "other"}
NegotiateIds == {"reply"}

VARIABLES
  gattServer,    \* this.gattServer: Undefined or the device whose server is stored
  channel,       \* this.channel: Undefined or the device whose characteristic is stored
  info,          \* this.info: the negotiated printer info
  linkUp,        \* transport: device -> its GATT link is up
  notifying,     \* transport: device -> notifications of its characteristic reach the handler
  devListeners,  \* device -> number of disconnectListener closures registered on it
  holder,        \* mutex: the call inside runExclusive, or NoCall
  queue,         \* mutex: the calls waiting in runExclusive, oldest first
  calls,         \* call id -> the call's position, arguments and result
  pktListeners,  \* the calls whose listener is subscribed to "packetreceived"
  timers,        \* the calls whose timeout timer is armed
  cpc,           \* position of the connect() call in progress
  cdev,          \* the device connect() got from requestDevice
  ccall,         \* the send call the negotiation awaits
  cout,          \* outcome of the last connect() call
  emitted        \* the events dispatched by the last task, in order

vars == <<gattServer, channel, info, linkUp, notifying, devListeners, holder, queue,
          calls, pktListeners, timers, cpc, cdev, ccall, cout, emitted>>

\* ------------------------------------------------------------- values
EmptyInfo == [connectResult |-> Undefined, modelId |-> Undefined]

NoResult == [tag |-> "none", cmd |-> Invalid, ids |-> {}]
\* a call resolved with the inbound packet of command cmd
Resolved(cmd) == [tag |-> "packet", cmd |-> cmd, ids |-> {}]
\* new NiimbotPacket(ResponseCommandId.Invalid, [])
InvalidPacket == [tag |-> "packet", cmd |-> Invalid, ids |-> {}]
\* sendRaw resolves with no value
Void == [tag |-> "void", cmd |-> Invalid, ids |-> {}]
ChannelClosed == [tag |-> "ChannelClosed", cmd |-> Invalid, ids |-> {}]
\* this.channel read as undefined after the sleep: a TypeError
TypeError == [tag |-> "TypeError", cmd |-> Invalid, ids |-> {}]
\* writeValueWithoutResponse rejected by the transport
WriteFailed == [tag |-> "WriteFailed", cmd |-> Invalid, ids |-> {}]
TimeoutErrorNoIds(ids) == [tag |-> "Timeout", cmd |-> Invalid, ids |-> {}]
\* Error(`Timeout waiting response (waited for ${bufToHex(validResponseIds)})`)
TimeoutError(ids) == [tag |-> "Timeout", cmd |-> Invalid, ids |-> ids]

IdleCall == [pc |-> "idle", kind |-> "none", oneWay |-> FALSE, ids |-> {},
             wdev |-> Undefined, broken |-> FALSE, res |-> NoResult]

\* call c settles with result r; only the result is kept of a settled call
Settled(cs, c, r) == [cs EXCEPT ![c] = [IdleCall EXCEPT !.pc = "done", !.res = r]]

Ev(type) == [type |-> type, cmd |-> Invalid, result |-> Undefined]
EvPacket(type, cmd) == [type |-> type, cmd |-> cmd, result |-> Undefined]
EvConnect(result) == [type |-> "connect", cmd |-> Invalid, result |-> result]

NoOutcome == [status |-> "none", code |-> Undefined, wasConnected |-> FALSE,
              caught |-> FALSE]

\* n copies of event e
Repeat(e, n) == [i \in 1..n |-> e]
CountEv(seq, type) == Cardinality({i \in 1..Len(seq) : seq[i].type = type})

\* isConnected()
IsConnected == gattServer # Undefined /\ channel # Undefined

\* validResponseIds of the packets the callers send
IdChoices == {{}, NegotiateIds}

\* ------------------------------------------------------------- the gate
\* Mutex.isLocked(): runExclusive queues the caller while another holds the gate
IsLockedNever(h) == FALSE
IsLocked(h) == h # NoCall

\* the waiter the mutex admits on release: async-mutex serves the oldest
NextWaiterNewest(q) == q[Len(q)]
NextWaiter(q) == Head(q)

Without(q, c) == SelectSeq(q, LAMBDA x : x # c)

\* send() up to its first suspension: the channel check, then the sleep
StartSendNoCheck(cs, c, ch) == [cs EXCEPT ![c].pc = "sleep"]
StartSend(cs, c, ch) ==
  IF ch = Undefined
    THEN Settled(cs, c, ChannelClosed)
    ELSE [cs EXCEPT ![c].pc = "sleep"]

\* release of the gate: the next waiter is admitted and runs up to its first
\* suspension; if its send() throws at once, the gate is released again
RECURSIVE Dispatch(_, _, _)
Dispatch(cs, q, ch) ==
  IF q = <<>>
    THEN [calls |-> cs, holder |-> NoCall, queue |-> q]
    ELSE LET n == NextWaiter(q)
             cs1 == StartSend(cs, n, ch)
         IN IF cs1[n].pc = "done"
              THEN Dispatch(cs1, Without(q, n), ch)
              ELSE [calls |-> cs1, holder |-> n, queue |-> Without(q, n)]

\* sendRaw(data, force): `if (force) await send()` runs send() outside the gate
BypassesAlways(kind) == TRUE
Bypasses(kind) == kind = "force"

\* a call of kind rec.kind arrives: "force" runs send() at once, the others
\* go through mutex.runExclusive
Invoke(cs, h, q, c, rec, ch) ==
  LET cs0 == [cs EXCEPT ![c] = rec]
  IN IF Bypasses(rec.kind)
       THEN [calls |-> StartSend(cs0, c, ch), holder |-> h, queue |-> q]
       ELSE IF IsLocked(h)
         THEN [calls |-> [cs0 EXCEPT ![c].pc = "queued"], holder |-> h,
               queue |-> Append(q, c)]
         ELSE LET cs1 == StartSend(cs0, c, ch)
              IN IF cs1[c].pc = "done"
                   THEN Dispatch(cs1, q, ch)
                   ELSE [calls |-> cs1, holder |-> c, queue |-> q]

\* a call of the given kind has settled (cs holds its result): runExclusive
\* releases the gate
Release(cs, h, q, kind, ch) ==
  IF Bypasses(kind)
    THEN [calls |-> cs, holder |-> h, queue |-> q]
    ELSE Dispatch(cs, q, ch)

\* the listener's test of an inbound packet
MatchesOnlyMember(ids, cmd) == cmd \in ids
Matches(ids, cmd) == ids = {} \/ cmd \in ids

\* the listeners "packetreceived" is delivered to: those addEventListener has
\* subscribed, which happens after the write of the request
SubscribedEarly(cs, ls) ==
  ls \cup {c \in Calls : cs[c].pc = "writing" /\ cs[c].kind = "spwr" /\ ~cs[c].oneWay}
Subscribed(cs, ls) == ls

\* removeEventListener of the listeners in gone (on resolution and on timeout)
RemoveListenersNever(ls, gone) == ls
RemoveListeners(ls, gone) == ls \ gone

\* clearTimeout of the timers in gone (on resolution; a timer that fired is gone)
ClearTimersNever(ts, gone) == ts
ClearTimers(ts, gone) == ts \ gone

\* the events the notification handler dispatches for one inbound packet
InboundEventsSwapped(cmd) ==
  <<EvPacket("packetreceived", cmd), EvPacket("rawpacketreceived", cmd)>>
InboundEvents(cmd) ==
  <<EvPacket("rawpacketreceived", cmd), EvPacket("packetreceived", cmd)>>

\* a oneWay packet returns the sentinel after the write, the others wait
AwaitsResponseAlways(oneWay) == TRUE
AwaitsResponse(oneWay) == ~oneWay

NegotiationCall == [IdleCall EXCEPT !.kind = "spwr", !.ids = NegotiateIds]

\* result.result of connect(): this.info.connectResult ?? ConnectResult.FirmwareErrors
ResultCodeAlwaysDefault(inf) == FirmwareErrors
ResultCode(inf) ==
  IF inf.connectResult # Undefined THEN inf.connectResult ELSE FirmwareErrors

\* the end of connect(): the result is built, "connect" dispatched, the result returned
Finish(cs, h, q, inf, ev, caught) ==
  /\ calls' = cs /\ holder' = h /\ queue' = q /\ info' = inf
  /\ cpc' = "idle" /\ ccall' = NoCall
  /\ cout' = [status |-> "returned", code |-> ResultCode(inf),
              wasConnected |-> cout.wasConnected, caught |-> caught]
  /\ emitted' = Append(ev, EvConnect(ResultCode(inf)))

\* the continuations a task runs once the calls are in state cs: if the call
\* the negotiation awaits has settled, connect() goes on
Settle(cs, h, q, ev) ==
  IF cpc \in {"initialNegotiate", "fetchPrinterInfo"} /\ cs[ccall].pc = "done"
    THEN IF cs[ccall].res.tag # "packet"
           THEN Finish(cs, h, q, info, ev, TRUE)
         ELSE IF cpc = "fetchPrinterInfo"
           THEN Finish(cs, h, q, [info EXCEPT !.modelId = "set"], ev, FALSE)
         ELSE LET inf == [info EXCEPT !.connectResult = Negotiated]
                  n == FetchPrinterInfoCall
                  g == Invoke(cs, h, q, n, NegotiationCall, channel)
              IN IF g.calls[n].pc = "done"
                   THEN Finish(g.calls, g.holder, g.queue, inf, ev, TRUE)
                   ELSE /\ calls' = g.calls /\ holder' = g.holder /\ queue' = g.queue
                        /\ info' = inf /\ cpc' = "fetchPrinterInfo" /\ ccall' = n
                        /\ cout' = cout /\ emitted' = ev
    ELSE /\ calls' = cs /\ holder' = h /\ queue' = q /\ emitted' = ev
         /\ UNCHANGED <<info, cpc, ccall, cout>>

\* ------------------------------------------------------------- the session
\* the fields a disconnect touches, as one value
Cur == [gattServer |-> gattServer, channel |-> channel, info |-> info,
        linkUp |-> linkUp, notifying |-> notifying, devListeners |-> devListeners,
        calls |-> calls, events |-> <<>>]

SetSession(s) ==
  /\ gattServer' = s.gattServer /\ channel' = s.channel /\ info' = s.info
  /\ linkUp' = s.linkUp /\ notifying' = s.notifying
  /\ devListeners' = s.devListeners /\ emitted' = s.events

\* the assignments of disconnectListener and of disconnect()
ClearFieldsKeepInfo(s) == [s EXCEPT !.gattServer = Undefined, !.channel = Undefined]
ClearFieldsKeepChannel(s) == [s EXCEPT !.gattServer = Undefined, !.info = EmptyInfo]
ClearFields(s) ==
  [s EXCEPT !.gattServer = Undefined, !.channel = Undefined, !.info = EmptyInfo]

\* "gattserverdisconnected" on device d: every disconnectListener registered on
\* d runs (clears the fields, dispatches "disconnect") and removes itself
FireDisconnectNoClear(s, d) ==
  IF s.devListeners[d] = 0 THEN s
  ELSE [s EXCEPT
          !.events = s.events \o Repeat(Ev("disconnect"), s.devListeners[d]),
          !.devListeners[d] = 0]
FireDisconnect(s, d) ==
  IF s.devListeners[d] = 0 THEN s
  ELSE [ClearFields(s) EXCEPT
          !.events = s.events \o Repeat(Ev("disconnect"), s.devListeners[d]),
          !.devListeners[d] = 0]

\* the link of device d goes down (by the transport or by gattServer.disconnect()):
\* notifications stop, a write in progress on it will be rejected, the event fires
DropLink(s, d) ==
  IF ~s.linkUp[d] THEN s
  ELSE FireDisconnect(
         [s EXCEPT !.linkUp[d] = FALSE, !.notifying[d] = FALSE,
                   !.calls = [c \in Calls |->
                      IF s.calls[c].pc = "writing" /\ s.calls[c].wdev = d
                        THEN [s.calls[c] EXCEPT !.broken = TRUE]
                        ELSE s.calls[c]]], d)

\* the body of disconnect()
DisconnectBody(s) ==
  ClearFields(IF s.gattServer # Undefined THEN DropLink(s, s.gattServer) ELSE s)

Fail(code) ==
  /\ cpc' = "idle"
  /\ cout' = [status |-> "failed", code |-> code,
              wasConnected |-> cout.wasConnected, caught |-> FALSE]

\* ------------------------------------------------------------- actions
Init ==
  /\ gattServer = Undefined /\ channel = Undefined /\ info = EmptyInfo
  /\ linkUp = [d \in Devices |-> FALSE]
  /\ notifying = [d \in Devices |-> FALSE]
  /\ devListeners = [d \in Devices |-> 0]
  /\ holder = NoCall /\ queue = <<>>
  /\ calls = [c \in Calls |-> IdleCall]
  /\ pktListeners = {} /\ timers = {}
  /\ cpc = "idle" /\ cdev = Undefined /\ ccall = NoCall
  /\ cout = NoOutcome
  /\ emitted = <<>>

\* disconnect() called by the user
Disconnect ==
  /\ LET s == DisconnectBody(Cur)
     IN SetSession(s) /\ calls' = s.calls
  /\ UNCHANGED <<holder, queue, pktListeners, timers, cpc, cdev, ccall, cout>>

\* the transport reports that the link of device d is lost
TransportDisconnect(d) ==
  /\ linkUp[d]
  /\ LET s == DropLink(Cur, d)
     IN SetSession(s) /\ calls' = s.calls
  /\ UNCHANGED <<holder, queue, pktListeners, timers, cpc, cdev, ccall, cout>>

\* connect() is called: disconnect() runs, then the device chooser opens
ConnectCall ==
  /\ cpc = "idle"
  /\ LET s == DisconnectBody(Cur)
     IN /\ SetSession(s)
        /\ calls' = [c \in Calls |-> IF c \in UserCalls THEN s.calls[c] ELSE IdleCall]
  /\ cpc' = "requestDevice" /\ cdev' = Undefined
  /\ cout' = [NoOutcome EXCEPT !.wasConnected = IsConnected]
  /\ UNCHANGED <<holder, queue, pktListeners, timers, ccall>>

\* requestDevice rejects: the user dismissed the chooser
RequestDeviceCancelled ==
  /\ cpc = "requestDevice"
  /\ Fail("Cancelled")
  /\ emitted' = <<>>
  /\ UNCHANGED <<gattServer, channel, info, linkUp, notifying, devListeners, holder,
                 queue, calls, pktListeners, timers, cdev, ccall>>

\* requestDevice resolves with device d; without a GATT profile connect() throws,
\* otherwise the disconnect listener is added and gatt.connect() starts
RequestDeviceDone(d, hasGatt) ==
  /\ cpc = "requestDevice"
  /\ hasGatt => devListeners[d] < MaxListeners
  /\ emitted' = <<>>
  /\ IF hasGatt
       THEN /\ devListeners' = [devListeners EXCEPT ![d] = @ + 1]
            /\ cdev' = d /\ cpc' = "gattConnect" /\ cout' = cout
       ELSE /\ Fail("NoGatt")
            /\ UNCHANGED <<devListeners, cdev>>
  /\ UNCHANGED <<gattServer, channel, info, linkUp, notifying, holder, queue, calls,
                 pktListeners, timers, ccall>>

\* device.gatt.connect() settles: the link is up, or the promise rejects
GattConnectDone(ok) ==
  /\ cpc = "gattConnect"
  /\ emitted' = <<>>
  /\ IF ok
       THEN /\ linkUp' = [linkUp EXCEPT ![cdev] = TRUE]
            /\ cpc' = "findChar" /\ cout' = cout
       ELSE /\ Fail("Network")
            /\ UNCHANGED linkUp
  /\ UNCHANGED <<gattServer, channel, info, notifying, devListeners, holder, queue,
                 calls, pktListeners, timers, cdev, ccall>>

\* findSuitableBluetoothCharacteristic settles: a characteristic, none (the
\* server is disconnected and connect() throws), or a rejection on a lost link
FindCharacteristicDone(found) ==
  /\ cpc = "findChar"
  /\ IF ~linkUp[cdev]
       THEN /\ Fail("Network")
            /\ emitted' = <<>>
            /\ UNCHANGED <<gattServer, channel, info, linkUp, notifying, devListeners,
                           calls>>
     ELSE IF found
       THEN /\ cpc' = "startNotif" /\ cout' = cout
            /\ emitted' = <<>>
            /\ UNCHANGED <<gattServer, channel, info, linkUp, notifying, devListeners,
                           calls>>
       ELSE /\ LET s == DropLink(Cur, cdev)
               IN SetSession(s) /\ calls' = s.calls
            /\ Fail("NoChar")
  /\ UNCHANGED <<holder, queue, pktListeners, timers, cdev, ccall>>

\* startNotifications settles: on success the fields are stored and
\* initialNegotiate sends its command
StartNotificationsDone ==
  /\ cpc = "startNotif"
  /\ emitted' = <<>>
  /\ IF ~linkUp[cdev]
       THEN /\ Fail("Network")
            /\ UNCHANGED <<gattServer, channel, notifying, holder, queue, calls, ccall>>
       ELSE /\ notifying' = [notifying EXCEPT ![cdev] = TRUE]
            /\ gattServer' = cdev /\ channel' = cdev
            /\ LET n == InitialNegotiateCall
                   g == Invoke(calls, holder, queue, n, NegotiationCall, cdev)
               IN /\ calls' = g.calls /\ holder' = g.holder /\ queue' = g.queue
                  /\ ccall' = n
            /\ cpc' = "initialNegotiate" /\ cout' = cout
  /\ UNCHANGED <<info, linkUp, devListeners, pktListeners, timers, cdev>>

\* a send call arrives; call ids are given in arrival order
Arrive(c, rec) ==
  /\ calls[c].pc = "idle"
  /\ \A b \in UserCalls : b < c => calls[b].pc # "idle"
  /\ LET g == Invoke(calls, holder, queue, c, rec, channel)
     IN Settle(g.calls, g.holder, g.queue, <<>>)
  /\ UNCHANGED <<gattServer, channel, linkUp, notifying, devListeners, pktListeners,
                 timers, cdev>>

\* the validResponseIds of a oneWay packet are never read: they are taken empty
SendPacketWaitResponse(c, oneWay, ids) ==
  /\ oneWay => ids = {}
  /\ Arrive(c, [IdleCall EXCEPT !.kind = "spwr", !.oneWay = oneWay, !.ids = ids])

SendRaw(c, force) ==
  Arrive(c, [IdleCall EXCEPT !.kind = IF force THEN "force" ELSE "raw"])

\* the sleep of send() is over: the bytes are handed to this.channel
SleepDone(c) ==
  /\ calls[c].pc = "sleep"
  /\ IF channel = Undefined
       THEN LET cs == Settled(calls, c, TypeError)
                g == Release(cs, holder, queue, calls[c].kind, channel)
            IN Settle(g.calls, g.holder, g.queue, <<>>)
       ELSE /\ calls' = [calls EXCEPT ![c].pc = "writing", ![c].wdev = channel,
                                      ![c].broken = ~linkUp[channel]]
            /\ emitted' = <<>>
            /\ UNCHANGED <<holder, queue, info, cpc, ccall, cout>>
  /\ UNCHANGED <<gattServer, channel, linkUp, notifying, devListeners, pktListeners,
                 timers, cdev>>

\* writeValueWithoutResponse settles; after a write "rawpacketsent" is dispatched
\* and the caller goes on: sendRaw returns, a oneWay packet returns the sentinel,
\* a two-way packet subscribes its listener and arms its timer
WriteDone(c) ==
  /\ calls[c].pc = "writing"
  /\ IF calls[c].broken
       THEN /\ LET cs == Settled(calls, c, WriteFailed)
                   g == Release(cs, holder, queue, calls[c].kind, channel)
               IN Settle(g.calls, g.holder, g.queue, <<>>)
            /\ UNCHANGED <<pktListeners, timers>>
     ELSE IF calls[c].kind = "spwr" /\ AwaitsResponse(calls[c].oneWay)
       THEN /\ calls' = [calls EXCEPT ![c].pc = "await", ![c].wdev = Undefined]
            /\ pktListeners' = pktListeners \cup {c}
            /\ timers' = timers \cup {c}
            /\ emitted' = <<Ev("rawpacketsent")>>
            /\ UNCHANGED <<holder, queue, info, cpc, ccall, cout>>
       ELSE /\ LET r == IF calls[c].kind = "spwr" THEN InvalidPacket ELSE Void
                   cs == Settled(calls, c, r)
                   g == Release(cs, holder, queue, calls[c].kind, channel)
               IN Settle(g.calls, g.holder, g.queue, <<Ev("rawpacketsent")>>)
            /\ UNCHANGED <<pktListeners, timers>>
  /\ UNCHANGED <<gattServer, channel, linkUp, notifying, devListeners, cdev>>

\* a notification of device d arrives with a packet of command cmd: both events
\* are dispatched; a subscribed listener whose test passes clears its timer,
\* unsubscribes and resolves its call
Inbound(d, cmd) ==
  /\ notifying[d]
  /\ LET hit == {c \in Subscribed(calls, pktListeners) : Matches(calls[c].ids, cmd)}
         cs == [c \in Calls |-> IF c \in hit
                  THEN [IdleCall EXCEPT !.pc = "done", !.res = Resolved(cmd)]
                  ELSE calls[c]]
         g == IF hit = {} THEN [calls |-> cs, holder |-> holder, queue |-> queue]
              ELSE Dispatch(cs, queue, channel)
     IN /\ pktListeners' = RemoveListeners(pktListeners, hit)
        /\ timers' = ClearTimers(timers, hit)
        /\ Settle(g.calls, g.holder, g.queue, InboundEvents(cmd))
  /\ UNCHANGED <<gattServer, channel, linkUp, notifying, devListeners, cdev>>

\* the timeout timer of call c fires: the listener is removed, the call rejected
TimeoutTearsDown(c) ==
  /\ c \in timers
  /\ pktListeners' = RemoveListeners(pktListeners, {c})
  /\ timers' = timers \ {c}
  /\ LET s == DisconnectBody(Cur)
         cs == Settled(s.calls, c, TimeoutError(calls[c].ids))
         g == Release(cs, holder, queue, calls[c].kind, s.channel)
     IN /\ gattServer' = s.gattServer /\ channel' = s.channel
        /\ linkUp' = s.linkUp /\ notifying' = s.notifying
        /\ devListeners' = s.devListeners
        /\ Settle(g.calls, g.holder, g.queue, s.events)
  /\ UNCHANGED cdev
Timeout(c) ==
  /\ c \in timers
  /\ pktListeners' = RemoveListeners(pktListeners, {c})
  /\ timers' = timers \ {c}
  /\ LET cs == Settled(calls, c, TimeoutError(calls[c].ids))
         g == Release(cs, holder, queue, calls[c].kind, channel)
     IN Settle(g.calls, g.holder, g.queue, <<>>)
  /\ UNCHANGED <<gattServer, channel, linkUp, notifying, devListeners, cdev>>

Next ==
  \/ \E d \in Devices : TransportDisconnect(d)
  \/ Disconnect
  \/ ConnectCall
  \/ RequestDeviceCancelled
  \/ \E d \in Devices, hasGatt \in BOOLEAN : RequestDeviceDone(d, hasGatt)
  \/ \E ok \in BOOLEAN : GattConnectDone(ok)
  \/ \E found \in BOOLEAN : FindCharacteristicDone(found)
  \/ StartNotificationsDone
  \/ \E c \in UserCalls, oneWay \in BOOLEAN, ids \in IdChoices :
       SendPacketWaitResponse(c, oneWay, ids)
  \/ \E c \in UserCalls, force \in BOOLEAN : SendRaw(c, force)
  \/ \E c \in Calls : SleepDone(c)
  \/ \E c \in Calls : WriteDone(c)
  \/ \E d \in Devices, cmd \in Cmds : Inbound(d, cmd)
  \/ \E c \in Calls : Timeout(c)

Spec == Init /\ [][Next]_vars

\* ------------------------------------------------------------- properties
\* a sendPacketWaitResponse call inside its exchange: from the start of its
\* send (the inter-packet sleep, then the write) until it has settled
InExchange(c) == calls[c].kind = "spwr" /\ calls[c].pc \in {"sleep", "writing", "await"}

\* the bytes of call c are being written to the transport
Writing(c) == calls[c].pc = "writing"

\* C1: at most one sendPacketWaitResponse call is inside its exchange at any
\* instant; while one is, no other such call is sleeping before its write,
\* writing or awaiting
C1_MutualExclusion == Cardinality({c \in Calls : InExchange(c)}) <= 1

\* a call awaits its response while another sendPacketWaitResponse call waits at the gate
C1_Witness ==
  \E c, b \in Calls :
    /\ calls[c].pc = "await" /\ calls[b].pc = "queued" /\ calls[b].kind = "spwr"

\* C2 (as claimed): a disconnect (disconnect() or the transport's event) while a
\* call awaits its response settles that call at once with a connection-closed
\* failure and releases the gate
C2_DisconnectFailsPending ==
  [][\A c \in Calls :
       (calls[c].pc = "await" /\ (Disconnect \/ \E d \in Devices : TransportDisconnect(d)))
         => (calls'[c].pc = "done" /\ calls'[c].res.tag = "ConnectionClosed"
             /\ holder' # c)]_vars

\* C3: when the timer of an awaiting call fires, the call fails with the timeout
\* error naming its validResponseIds; until then it held the gate and no other
\* gate user was sending, and with the failure the gate passes on: the oldest
\* waiter is admitted (or fails at once on a closed channel), none stays blocked
C3_TimeoutStep ==
  \A c \in Calls :
    Timeout(c) =>
      /\ calls'[c].pc = "done"
      /\ calls'[c].res.tag = "Timeout" /\ calls'[c].res.ids = calls[c].ids
      /\ holder = c /\ holder' # c
      /\ \A b \in Calls \ {c} :
           calls[b].kind \in {"spwr", "raw"} => calls[b].pc \notin {"sleep", "writing", "await"}
      /\ queue # <<>> =>
           /\ calls'[Head(queue)].pc \in {"sleep", "done"}
           /\ calls'[Head(queue)].pc = "sleep" => holder' = Head(queue)
      /\ holder' = NoCall => queue' = <<>>
C3_Timeout == [][C3_TimeoutStep]_vars

\* a call failed with the timeout error naming a non-empty id set and the call
\* that waited behind it has been admitted
C3_Witness ==
  \E c, b \in Calls :
    /\ calls[c].res.tag = "Timeout" /\ calls[c].res.ids # {}
    /\ holder = b /\ calls[b].pc = "sleep" /\ emitted = <<>>

\* C4: an inbound packet resolves the awaiting call iff the call's
\* validResponseIds is empty or holds the packet's command; the call is then
\* resolved with exactly that packet; otherwise the call is left as it was, its
\* listener and timer in place; the packet is published as "packetreceived"
\* either way
C4_InboundStep ==
  \A c \in Calls, d \in Devices, cmd \in Cmds :
    (calls[c].pc = "await" /\ notifying[d] /\ emitted' # <<>> /\ Inbound(d, cmd)) =>
      /\ emitted'[2] = [type |-> "packetreceived", cmd |-> cmd, result |-> "undefined"]
      /\ IF calls[c].ids = {} \/ cmd \in calls[c].ids
           THEN /\ calls'[c].pc = "done"
                /\ calls'[c].res.tag = "packet" /\ calls'[c].res.cmd = cmd
                /\ c \notin pktListeners' /\ c \notin timers'
           ELSE /\ calls'[c] = calls[c]
                /\ c \in pktListeners' /\ c \in timers'
C4_Correlation == [][C4_InboundStep]_vars

\* a call was resolved by a packet outside the negotiation's id set (its own set
\* was empty), and a later call with a non-empty set stays pending on a packet
\* outside its set, which was published all the same
C4_Witness ==
  \E c, b \in Calls :
    /\ calls[c].res.tag = "packet" /\ calls[c].res.cmd = "other"
    /\ calls[b].pc = "await" /\ calls[b].ids # {}
    /\ Len(emitted) = 2 /\ emitted[2].type = "packetreceived" /\ emitted[2].cmd = "other"

\* C5: no oneWay call ever has a listener subscribed or a timer armed, and when
\* the write of a oneWay sendPacketWaitResponse completes the call resolves with
\* the sentinel Invalid packet and the gate is released in the same step
C5_NoListener == \A c \in pktListeners \cup timers : ~calls[c].oneWay
C5_WriteStep ==
  \A c \in Calls :
    (WriteDone(c) /\ calls[c].kind = "spwr" /\ calls[c].oneWay /\ ~calls[c].broken) =>
      /\ calls'[c].pc = "done"
      /\ calls'[c].res = [tag |-> "packet", cmd |-> "Invalid", ids |-> {}]
      /\ pktListeners' = pktListeners /\ timers' = timers
      /\ holder = c /\ holder' # c
C5_OneWay == []C5_NoListener /\ [][C5_WriteStep]_vars

\* a call resolved with the sentinel packet while notifications are flowing
C5_Witness ==
  \E c \in UserCalls :
    /\ calls[c].res = [tag |-> "packet", cmd |-> "Invalid", ids |-> {}]
    /\ emitted = <<[type |-> "rawpacketsent", cmd |-> "Invalid", result |-> "undefined"]>>
    /\ \E d \in Devices : notifying[d]

Waits(c) == calls[c].pc = "queued"

\* C6: gate users are admitted in arrival order: the waiting queue changes only
\* by losing waiters at its front, whose critical sections start (they sleep
\* before their write, or fail at once on a closed channel), and by gaining at
\* its back a call that was not waiting; a forced sendRaw never waits
C6_FifoStep ==
  queue' # queue =>
    \E k \in 0..Len(queue) :
      LET rest == SubSeq(queue, k + 1, Len(queue))
      IN /\ Len(queue') >= Len(rest)
         /\ SubSeq(queue', 1, Len(rest)) = rest
         /\ \A i \in (Len(rest) + 1)..Len(queue') : ~Waits(queue'[i])
         /\ \A i \in 1..k : calls'[queue[i]].pc \in {"sleep", "done"}
         /\ \A i \in 1..k : calls'[queue[i]].pc = "sleep" => (i = k /\ holder' = queue[i])
C6_Queue ==
  /\ \A c \in Calls : Waits(c) <=> \E i \in 1..Len(queue) : queue[i] = c
  /\ \A c \in Calls : Waits(c) => calls[c].kind \in {"spwr", "raw"}
  /\ \A i, j \in 1..Len(queue) : queue[i] = queue[j] => i = j
  /\ queue # <<>> => holder # NoCall
C6_Fifo == []C6_Queue /\ [][C6_FifoStep]_vars

\* a sendRaw without force and a sendPacketWaitResponse both wait at the gate
C6_Witness ==
  /\ Len(queue) >= 2
  /\ \E c, b \in UserCalls :
       /\ Waits(c) /\ Waits(b) /\ calls[c].kind = "raw" /\ calls[b].kind = "spwr"

\* C7: after disconnect() the session is not connected and info is empty; on a
\* session that is already disconnected disconnect() changes no session field
\* and dispatches no event
C7_DisconnectStep ==
  Disconnect =>
    /\ ~(gattServer' # Undefined /\ channel' # Undefined)
    /\ info' = [connectResult |-> "undefined", modelId |-> "undefined"]
    /\ ~(gattServer # Undefined /\ channel # Undefined) =>
          /\ UNCHANGED <<gattServer, channel, info, linkUp, notifying, devListeners>>
          /\ emitted' = <<>>
C7_Disconnect == [][C7_DisconnectStep]_vars

\* a session that negotiated its info has been disconnected
C7_Witness ==
  /\ cout.status = "returned" /\ cout.code = "Connected"
  /\ gattServer = Undefined /\ channel = Undefined
  /\ info = [connectResult |-> "undefined", modelId |-> "undefined"]
  /\ emitted = <<[type |-> "disconnect", cmd |-> "Invalid", result |-> "undefined"]>>

\* a step in which a link goes down: one physical disconnect event
LinkLost == \E d \in Devices : linkUp[d] /\ ~linkUp'[d]

\* C8 (as claimed): every physical disconnect event makes the client dispatch
\* "disconnect" exactly once
C8_DisconnectOnce == [][LinkLost => CountEv(emitted', "disconnect") = 1]_vars

\* C9: after connect() failed structurally (no GATT profile, no suitable
\* characteristic) no "connect" event was dispatched and, until the next
\* connect(), the session is not connected: gattServer, channel and info unset
C9_StructuralFailure ==
  (cout.status = "failed" /\ cout.code \in {"NoGatt", "NoChar"}) =>
     /\ gattServer = Undefined /\ channel = Undefined
     /\ info = [connectResult |-> "undefined", modelId |-> "undefined"]
     /\ CountEv(emitted, "connect") = 0

\* connect() failed for want of a characteristic, called on a connected session
C9_Witness ==
  /\ cout.status = "failed" /\ cout.code = "NoChar" /\ cout.wasConnected
  /\ emitted = <<[type |-> "disconnect", cmd |-> "Invalid", result |-> "undefined"]>>

\* connect() returns in this step
Returns == cout.status # "returned" /\ cout'.status = "returned"

C11_ClosedStep ==
  \A c \in Calls :
    (calls[c].pc \in {"idle", "queued"} /\ calls'[c].pc \in {"sleep", "done"}
       /\ channel' = "undefined")
    => /\ calls'[c].pc = "done" /\ calls'[c].res.tag = "ChannelClosed"
       /\ CountEv(emitted', "rawpacketsent") = 0
       /\ holder' # c
       /\ holder' = NoCall => queue' = <<>>
       /\ calls[c].pc = "queued"
            => /\ holder' = NoCall
               /\ \A b \in Calls : calls[b].pc = "queued"
                     => calls'[b].res.tag = "ChannelClosed"
C11_ChannelClosed == [][C11_ClosedStep]_vars

\* two calls have failed with "Channel is closed" (one of them waited at the gate
\* behind a request that timed out on the lost session) and the gate is free
C11_Witness ==
  /\ channel = Undefined /\ holder = NoCall /\ queue = <<>>
  /\ calls[1].res.tag = "Timeout"
  /\ calls[2].res.tag = "ChannelClosed"

\* ------------------------------------------------------------- C12
\* a sendRaw call without force inside its send(): sleeping before the write or
\* writing
RawSending(c) == calls[c].kind = "raw" /\ calls[c].pc \in {"sleep", "writing"}

\* C12: while a sendPacketWaitResponse call is inside its exchange (sleeping
\* before its write, writing, or awaiting its response or timeout) no sendRaw
\* call without force is sleeping or writing, and no two sendRaw calls without
\* force are inside their send() together; a call inside its send() next to an
\* exchange or next to a non-forced send is a sendRaw with force
C12_NoRawDuringExchange ==
  \A c, b \in Calls :
    c # b => /\ ~(InExchange(c) /\ RawSending(b))
             /\ ~(RawSending(c) /\ RawSending(b))
             /\ ((InExchange(c) \/ RawSending(c)) /\ calls[b].pc \in {"sleep", "writing"})
                  => calls[b].kind = "force"

\* a forced sendRaw writes to the transport while a request awaits its response
C12_Witness ==
  \E c, b \in Calls :
    /\ calls[c].pc = "await" /\ calls[c].kind = "spwr"
    /\ Writing(b) /\ calls[b].kind = "force" /\ ~calls[b].broken

\* ------------------------------------------------------------- C13
\* C13: the timeout of a request changes no field of the session: gattServer,
\* channel, info and the link keep their values (so isConnected() keeps its
\* value), no "disconnect" is dispatched, the timed-out call alone is settled,
\* and on a connected session the oldest waiter is admitted and starts its send
C13_TimeoutStep ==
  \A c \in Calls :
    Timeout(c)
    => /\ gattServer' = gattServer /\ channel' = channel /\ info' = info
       /\ linkUp' = linkUp /\ notifying' = notifying /\ devListeners' = devListeners
       /\ CountEv(emitted', "disconnect") = 0
       /\ (gattServer # "undefined" /\ channel # "undefined")
            => /\ gattServer' # "undefined" /\ channel' # "undefined"
               /\ queue # <<>> => /\ holder' = Head(queue)
                                  /\ calls'[Head(queue)].pc = "sleep"
C13_TimeoutKeepsSession == [][C13_TimeoutStep]_vars

\* on one connected session a request has timed out and a later request has
\* been sent and resolved by a packet
C13_Witness ==
  /\ IsConnected /\ linkUp[gattServer] /\ cout.status = "returned"
  /\ CountEv(emitted, "packetreceived") = 1
  /\ calls[1].res.tag = "Timeout"
  /\ calls[2].res.tag = "packet" /\ calls[2].res.cmd = "reply"

\* ------------------------------------------------------------- C14
\* C14 (states): isConnected() is false while connect() has not yet passed
\* startNotifications, and when it is true the channel stored is the one of
\* gattServer, whose link is up with notifications started
C14_ConnectedState ==
  /\ cpc \in {"requestDevice", "gattConnect", "findChar", "startNotif"} => ~IsConnected
  /\ IsConnected => /\ channel = gattServer
                    /\ linkUp[gattServer] /\ notifying[gattServer]

\* C14 (steps): isConnected() becomes true only in the step in which
\* startNotifications succeeds and the two fields are stored, and it is false
\* after every disconnect() and after every loss of the link
C14_ConnectedStep ==
  /\ (~IsConnected /\ IsConnected')
       => /\ cpc = "startNotif" /\ cpc' = "initialNegotiate"
          /\ linkUp[cdev] /\ notifying'[cdev]
          /\ gattServer' = cdev /\ channel' = cdev
  /\ (Disconnect \/ LinkLost) => ~IsConnected'

\* C14: isConnected() is true only between a successful acquisition of the
\* endpoint and the next disconnect, local or from the transport
C14_ConnectedOnlyInSession == []C14_ConnectedState /\ [][C14_ConnectedStep]_vars

\* a second connect() has acquired an endpoint again after the transport had
\* ended the first session
C14_Witness ==
  /\ IsConnected /\ cpc = "initialNegotiate"
  /\ cout.wasConnected = FALSE
  /\ \E c \in UserCalls : calls[c].res.tag \in {"Timeout", "TypeError", "WriteFailed"}

\* ------------------------------------------------------------- C15
\* C15 (the window): a packet whose command passes the test of request c and is
\* published while c's bytes are with the transport (before the listener of c is
\* subscribed) leaves c as it is, unresolved and holding the gate
C15_WindowStep ==
  \A c \in Calls, d \in Devices, cmd \in Cmds :
    (calls[c].pc = "writing" /\ calls[c].kind = "spwr" /\ ~calls[c].oneWay
       /\ (calls[c].ids = {} \/ cmd \in calls[c].ids)
       /\ notifying[d] /\ emitted' # <<>> /\ Inbound(d, cmd))
    => /\ calls'[c] = calls[c] /\ holder' = c
       /\ c \notin pktListeners'

\* C15 (afterwards): a subscribed request leaves its wait only by a packet that
\* passes its test and is published during the wait, or by its timer, and then
\* with the timeout error
C15_AwaitStep ==
  \A c \in Calls :
    (calls[c].pc = "await" /\ calls'[c].pc # "await")
    => \/ /\ calls'[c].res.tag = "Timeout"
          /\ CountEv(emitted', "packetreceived") = 0
       \/ /\ calls'[c].res.tag = "packet"
          /\ emitted'[2].type = "packetreceived"
          /\ calls'[c].res.cmd = emitted'[2].cmd
          /\ (calls[c].ids = {} \/ emitted'[2].cmd \in calls[c].ids)

\* C15: a matching packet published between the write and the subscription of
\* the listener does not resolve the request, which without a later matching
\* packet ends with the timeout error
C15_EarlyPacketLost == [][C15_WindowStep /\ C15_AwaitStep]_vars

\* a packet with the command a request awaits has just been published while the
\* bytes of the request are with the transport, and the request is unresolved
C15_Witness ==
  \E c \in Calls :
    /\ calls[c].pc = "writing" /\ calls[c].kind = "spwr" /\ ~calls[c].broken
    /\ calls[c].ids = {"reply"} /\ holder = c /\ c \notin pktListeners
    /\ Len(emitted) = 2 /\ emitted[2].type = "packetreceived" /\ emitted[2].cmd = "reply"

\* ------------------------------------------------------------- C16
\* C16: every inbound notification makes the client dispatch exactly two events
\* before anything else, "rawpacketreceived" and then "packetreceived", both for
\* that packet and once each, whatever its command; a request subscribed with
\* empty validResponseIds is resolved by it, also by a command no request names
C16_InboundStep ==
  \A d \in Devices, cmd \in Cmds :
    (notifying[d] /\ emitted' # <<>> /\ Inbound(d, cmd))
    => /\ Len(emitted') >= 2
       /\ emitted'[1] = [type |-> "rawpacketreceived", cmd |-> cmd, result |-> "undefined"]
       /\ emitted'[2] = [type |-> "packetreceived", cmd |-> cmd, result |-> "undefined"]
       /\ CountEv(emitted', "rawpacketreceived") = 1
       /\ CountEv(emitted', "packetreceived") = 1
       /\ \A c \in pktListeners :
            calls[c].ids = {}
            => /\ calls'[c].pc = "done" /\ calls'[c].res.tag = "packet"
               /\ calls'[c].res.cmd = cmd
C17_OneListener ==
  /\ Cardinality(pktListeners) <= 1
  /\ timers = pktListeners
  /\ \A c \in Calls :
       c \in pktListeners
       <=> (calls[c].pc = "await" /\ calls[c].kind = "spwr" /\ ~calls[c].oneWay)
  /\ \A c \in pktListeners : holder = c

\* two requests have ended, one by a packet and one by its timer, and no
\* listener is left subscribed
C17_Witness ==
  /\ pktListeners = {} /\ timers = {}
  /\ \E c, b \in UserCalls :
       /\ calls[c].res.tag = "Timeout"
       /\ calls[b].res.tag = "packet" /\ calls[b].res.cmd # "Invalid"

\* ------------------------------------------------------------- C18
\* the specification under the assumptions of C18: the sleep of a send() ends,
\* a write handed to the transport settles, and an armed timer fires unless
\* it is cleared
FairSpec ==
  /\ Spec
  /\ \A c \in Calls : WF_vars(SleepDone(c))
  /\ \A c \in Calls : WF_vars(WriteDone(c))
  /\ \A c \in Calls : WF_vars(Timeout(c))

\* call c has been made and has not settled
Unsettled(c) == calls[c].pc \in {"queued", "sleep", "writing", "await"}

\* C18 (once): a settled call of a caller keeps its result for ever, a settled
\* call has no timer and no listener left, and a call that settles does so with
\* a result: a packet, the sentinel or void, or an error
C18_OnceStep ==
  \A c \in Calls :
    /\ (c \in UserCalls /\ calls[c].pc = "done") => calls'[c] = calls[c]
    /\ calls'[c].pc = "done"
         => /\ c \notin timers' /\ c \notin pktListeners' /\ holder' # c
            /\ calls'[c].res.tag \in {"packet", "void", "Timeout", "ChannelClosed",
                                      "TypeError", "WriteFailed"}
    /\ (calls[c].pc = "done" /\ calls[c].res.tag = "packet") => ~Timeout(c)

\* C18: every call that has been made settles, whatever packets, timeouts and
\* disconnects come in between, so every waiter at the gate is admitted; and it
\* settles once
C18_Completes ==
  /\ \A c \in Calls : Unsettled(c) ~> calls[c].pc = "done"
  /\ \A c \in Calls : calls[c].pc = "queued" ~> calls[c].pc # "queued"
  /\ [][C18_OnceStep]_vars

\* a request that waited at the gate behind a request that timed out has been
\* admitted and resolved
C18_Witness ==
  /\ calls[1].res.tag = "Timeout"
  /\ calls[2].res.tag = "packet" /\ calls[2].res.cmd = "reply"
  /\ holder = NoCall /\ queue = <<>> /\ timers = {}
  /\ ccall = NoCall

\* ------------------------------------------------------------- C19
\* C19 (as claimed): whenever connect() dispatches "connect" and returns its
\* ConnectionInfo, isConnected() is true, also when the transport ended the
\* session during the negotiation
C19_ConnectedAtReturn ==
  [][(cout.status # "returned" /\ cout'.status = "returned"
        /\ CountEv(emitted', "connect") = 1)
     => (gattServer' # Undefined /\ channel' # Undefined)]_vars

\* ------------------------------------------------------------- C20
\* the printer's reply to request o is published after o has timed out: o was
\* written to the transport (only a written request arms a timer), its timer
\* has fired, and a packet whose command passes the test of o arrives. The
\* packet carries no mark of the request it answers, so the step it causes is
\* the Inbound step of its command
LateReply(o, d, cmd) ==
  /\ calls[o].pc = "done" /\ calls[o].res.tag = "Timeout"
  /\ (calls[o].res.ids = {} \/ cmd \in calls[o].res.ids)
  /\ notifying[d] /\ emitted' # <<>> /\ Inbound(d, cmd)

\* C20 (as claimed): the late reply to a request that has timed out resolves
\* no later request: a request that awaits when it arrives goes on awaiting
C20_OwnReplyOnly ==
  [][\A o \in Calls, c \in Calls, d \in Devices, cmd \in Cmds :
       (LateReply(o, d, cmd) /\ c # o /\ calls[c].pc = "await")
       => calls'[c].pc = "await"]_vars

====
